---- MODULE Spec2Model ----
(***************************************************************************)
(* Model of app.py: the cached pipeline load_and_merge_data (existence     *)
(* check, read_csv, zip-code normalisation, digit-prefix extraction, fuzzy *)
(* matching with rapidfuzz partial_ratio, inner merge) and the module-level *)
(* script that renders its result.                                         *)
(*                                                                         *)
(* Strings are sequences of one-character strings.  A table cell is a      *)
(* record [na, n, s]: na marks NaN/None, n is the number of a numeric cell, *)
(* s the text of a string cell.                                            *)
(***************************************************************************)
EXTENDS Integers, Sequences, FiniteSets, TLC

VARIABLES demo_file, list_file, cache, pc, hit, demo_df, listings_df, row,
          merged_df, df, exc, ui, shown, searches, uniqueBuilds

vars == <<demo_file, list_file, cache, pc, hit, demo_df, listings_df, row,
          merged_df, df, exc, ui, shown, searches, uniqueBuilds>>

(* ------------------------------ bounds --------------------------------- *)
MaxDemoRows == 2
MaxListRows == 2

(* ------------------------- program constants --------------------------- *)
ZipWidth == 5
Threshold == 80

(* ------------------------------ strings -------------------------------- *)
DigitChars == <<"0", "1", "2", "3", "4", "5", "6", "7", "8", "9">>
Digits == {DigitChars[i] : i \in 1..10}
DigitVal(c) == (CHOOSE i \in 1..10 : DigitChars[i] = c) - 1

IsDigitStr(s) == Len(s) > 0 /\ \A i \in 1..Len(s) : s[i] \in Digits

Max(a, b) == IF a >= b THEN a ELSE b

RECURSIVE ParseInt(_)
ParseInt(s) ==
    IF s = <<>> THEN 0
    ELSE ParseInt(SubSeq(s, 1, Len(s) - 1)) * 10 + DigitVal(s[Len(s)])

RECURSIVE IntToStr(_)
IntToStr(n) ==
    IF n < 10 THEN <<DigitChars[n + 1]>>
    ELSE IntToStr(n \div 10) \o <<DigitChars[(n % 10) + 1]>>

(* ------------------------------ cells ---------------------------------- *)
NaV == [na |-> TRUE, n |-> 0, s |-> <<>>]
StrV(s) == [na |-> FALSE, n |-> 0, s |-> s]
NumV(n) == [na |-> FALSE, n |-> n, s |-> <<>>]

\* pandas' default na_values that the modelled files can contain
NaValues == { <<>>, <<"N", "/", "A">>, <<"N", "A">>, <<"n", "a", "n">> }

\* pd.read_csv column type inference: all integers -> int64; integers and
\* missing values -> float64; anything else (and a column with no rows) -> object
InferDtype(cells) ==
    IF cells = <<>> THEN "object"
    ELSE IF \A i \in 1..Len(cells) : IsDigitStr(cells[i]) THEN "int64"
    ELSE IF \A i \in 1..Len(cells) : IsDigitStr(cells[i]) \/ cells[i] \in NaValues
         THEN "float64"
    ELSE "object"

ParseCell(dt, c) ==
    IF dt = "int64" THEN NumV(ParseInt(c))
    ELSE IF c \in NaValues THEN NaV
    ELSE IF dt = "float64" THEN NumV(ParseInt(c))
    ELSE StrV(c)

ReadCsvColumn(cells) ==
    LET dt == InferDtype(cells)
    IN  [dtype |-> dt,
         values |-> [i \in 1..Len(cells) |-> ParseCell(dt, cells[i])]]

\* Series.astype(str) on one cell: str(int), repr(float), 'nan' for a missing value
AsTypeStrKeepNa(dt, v) ==
    IF v.na THEN NaV
    ELSE IF dt = "int64" THEN StrV(IntToStr(v.n))
    ELSE IF dt = "float64" THEN StrV(IntToStr(v.n) \o <<".", "0">>)
    ELSE StrV(v.s)

AsTypeStr(dt, v) ==
    IF v.na THEN StrV(<<"n", "a", "n">>)
    ELSE IF dt = "int64" THEN StrV(IntToStr(v.n))
    ELSE IF dt = "float64" THEN StrV(IntToStr(v.n) \o <<".", "0">>)
    ELSE StrV(v.s)

RECURSIVE Zeros(_)
Zeros(k) == IF k <= 0 THEN <<>> ELSE <<"0">> \o Zeros(k - 1)

\* Series.str.zfill(width): pads on the left, never shortens; NaN stays NaN
ZFill(v, width) ==
    IF v.na THEN v ELSE StrV(Zeros(width - Len(v.s)) \o v.s)

\* Series.str.extract(r'(\d+)'): leftmost greedy run of digits, NaN when none
Extract(v) ==
    IF v.na \/ ~(\E i \in 1..Len(v.s) : v.s[i] \in Digits) THEN NaV
    ELSE LET first == CHOOSE i \in 1..Len(v.s) :
                          /\ v.s[i] \in Digits
                          /\ \A j \in 1..(i - 1) : v.s[j] \notin Digits
             last  == CHOOSE j \in first..Len(v.s) :
                          /\ \A k \in first..j : v.s[k] \in Digits
                          /\ (j = Len(v.s) \/ v.s[j + 1] \notin Digits)
         IN  StrV(SubSeq(v.s, first, last))

(* ------------------- rapidfuzz: fuzz.partial_ratio --------------------- *)
RECURSIVE LcsLen(_, _)
LcsLen(a, b) ==
    IF a = <<>> \/ b = <<>> THEN 0
    ELSE IF Head(a) = Head(b) THEN 1 + LcsLen(Tail(a), Tail(b))
    ELSE Max(LcsLen(Tail(a), b), LcsLen(a, Tail(b)))

\* A score is the rational 100 * n / d, kept exact.
ZeroScore == [n |-> 0, d |-> 1]
FullScore == [n |-> 1, d |-> 1]
ScoreGt(x, y) == x.n * y.d > y.n * x.d
ScoreEq(x, y) == x.n * y.d = y.n * x.d
ScoreGe(x, t) == 100 * x.n >= t * x.d

\* fuzz.ratio: normalised Indel similarity, 100 * 2 * LCS / (len1 + len2)
Ratio(a, b) ==
    IF Len(a) + Len(b) = 0 THEN FullScore
    ELSE [n |-> 2 * LcsLen(a, b), d |-> Len(a) + Len(b)]

Chars(s) == {s[i] : i \in 1..Len(s)}

\* the windows of the longer string s2 that _partial_ratio_impl scores s1
\* against: its short prefixes, its substrings of length len1, its suffixes
PartialWindows(s1, s2) ==
    LET len1 == Len(s1)
        len2 == Len(s2)
    IN  {<<1, i>> : i \in {i \in 1..(len1 - 1) : s2[i] \in Chars(s1)}}
        \cup {<<i + 1, i + len1>> :
                 i \in {i \in 0..(len2 - len1 - 1) : s2[i + len1] \in Chars(s1)}}
        \cup {<<i + 1, len2>> :
                 i \in {i \in (len2 - len1)..(len2 - 1) : s2[i + 1] \in Chars(s1)}}

\* assumes Len(s1) <= Len(s2)
PartialRatioImpl(s1, s2) ==
    LET scores == {Ratio(s1, SubSeq(s2, w[1], w[2])) : w \in PartialWindows(s1, s2)}
    IN  IF scores = {} THEN ZeroScore
        ELSE CHOOSE x \in scores : \A y \in scores : ~ScoreGt(y, x)

PartialRatio(s1, s2) ==
    IF Len(s1) = 0 /\ Len(s2) = 0 THEN FullScore
    ELSE LET shorter == IF Len(s1) <= Len(s2) THEN s1 ELSE s2
             longer  == IF Len(s1) <= Len(s2) THEN s2 ELSE s1
             res     == PartialRatioImpl(shorter, longer)
         IN  IF ~ScoreEq(res, FullScore) /\ Len(s1) = Len(s2)
             THEN LET res2 == PartialRatioImpl(longer, shorter)
                  IN  IF ScoreGt(res2, res) THEN res2 ELSE res
             ELSE res

(* ------------------- rapidfuzz: process.extractOne --------------------- *)
NoMatch == [found |-> FALSE, choice |-> NaV, score |-> ZeroScore, key |-> 0]

\* extractOne replaces its current result only by a choice that scores higher
BetterOrEqual(sc, res) == ~res.found \/ ~ScoreGt(res.score, sc)

Better(sc, res) == ~res.found \/ ScoreGt(sc, res.score)

RECURSIVE Scan(_, _, _, _)
Scan(query, choices, k, res) ==
    IF k > Len(choices) THEN res
    ELSE IF choices[k].na THEN Scan(query, choices, k + 1, res)
    ELSE LET sc  == PartialRatio(query, choices[k].s)
             new == IF Better(sc, res)
                    THEN [found |-> TRUE, choice |-> choices[k], score |-> sc, key |-> k]
                    ELSE res
         IN  IF ScoreEq(sc, FullScore) THEN new
             ELSE Scan(query, choices, k + 1, new)

ExtractOne(query, choices) == Scan(query, choices, 1, NoMatch)

\* Series.unique(): the distinct values in order of first appearance
RECURSIVE Unique(_)
Unique(vals) ==
    IF vals = <<>> THEN <<>>
    ELSE LET init == Unique(SubSeq(vals, 1, Len(vals) - 1))
             v    == vals[Len(vals)]
         IN  IF \E i \in 1..Len(init) : init[i] = v THEN init ELSE Append(init, v)

(* --------------------------- find_best_zip ----------------------------- *)
AcceptAny(m) == m.found

Accept(m) == m.found /\ ScoreGe(m.score, Threshold)

find_best_zip(prefix, zip_codes) ==
    IF prefix.na THEN NaV
    ELSE LET choices == Unique(zip_codes)
             match   == ExtractOne(prefix.s, choices)
         IN  IF Accept(match) THEN match.choice ELSE NaV

(* ------------------------------ inputs --------------------------------- *)
\* zip_code cells of demographics.csv: a canonical code, a number that lost
\* its leading zeros, a value longer than five characters, a missing value,
\* non-digit text
DemoCells == { <<"3", "2", "5", "9", "9">>,
               <<"5", "0", "1">>,
               <<"3", "2", "5", "9", "9", "1">>,
               <<>>,
               <<"3", "2", "A">> }

\* postal_code cells of listings.csv
ListCells == { <<"3", "2", "5", "X", "X">>,
               <<"N", "/", "A">>,
               <<"0", "0", "5", "0", "1">>,
               <<"3", "2", "0", "9", "9">> }

\* what a later write to data/ puts there
NewDemoFiles == { << <<"3", "2", "5", "9", "9">> >> }
NewListFiles == { << <<"3", "2", "5", "X", "X">> >> }

SeqsUpTo(S, n) == UNION {[1..k -> S] : k \in 0..n}

MissingFile == [exists |-> FALSE, cells |-> <<>>]
File(cells) == [exists |-> TRUE, cells |-> cells]

(* ------------------------------ tables --------------------------------- *)
DemoCols == {"zip_code", "school_rating", "crime_index"}
ListCols == {"postal_code", "listing_price", "sq_ft", "raw_address"}

EmptyColumn == [dtype |-> "object", values |-> <<>>]
NoDemo == [columns |-> {}, zip_code |-> EmptyColumn]
NoListings == [columns |-> {}, postal_code |-> EmptyColumn,
               zip_prefix |-> <<>>, matched_zip |-> <<>>]

\* pd.DataFrame()
EmptyTable == [columns |-> {}, rows |-> <<>>]
NoCache == [valid |-> FALSE, value |-> EmptyTable, elements |-> {}]
NoShown == [scatter |-> EmptyTable, bar |-> EmptyTable, detail |-> EmptyTable]

\* line 32
NormalizeZip(col) ==
    [dtype |-> "object",
     values |-> [i \in 1..Len(col.values) |->
                    ZFill(AsTypeStr(col.dtype, col.values[i]), ZipWidth)]]

\* line 34
ExtractPrefix(col) ==
    [i \in 1..Len(col.values) |-> Extract(AsTypeStr(col.dtype, col.values[i]))]

\* pd.merge matches two keys when they are equal; null keys match each other
KeyEq(a, b) == (a.na /\ b.na) \/ (~a.na /\ ~b.na /\ a.s = b.s)

RECURSIVE JoinRow(_, _, _, _)
JoinRow(i, ldf, ddf, j) ==
    IF j > Len(ddf.zip_code.values) THEN <<>>
    ELSE (IF KeyEq(ldf.matched_zip[i], ddf.zip_code.values[j])
          THEN << [listing     |-> i,
                   demo        |-> j,
                   zip_prefix  |-> ldf.zip_prefix[i],
                   matched_zip |-> ldf.matched_zip[i],
                   zip_code    |-> ddf.zip_code.values[j]] >>
          ELSE <<>>) \o JoinRow(i, ldf, ddf, j + 1)

RECURSIVE JoinFrom(_, _, _)
JoinFrom(i, ldf, ddf) ==
    IF i > Len(ldf.matched_zip) THEN <<>>
    ELSE JoinRow(i, ldf, ddf, 1) \o JoinFrom(i + 1, ldf, ddf)

RECURSIVE LeftJoinFrom(_, _, _)
LeftJoinFrom(i, ldf, ddf) ==
    IF i > Len(ldf.matched_zip) THEN <<>>
    ELSE (IF JoinRow(i, ldf, ddf, 1) = <<>>
          THEN << [listing     |-> i,
                   demo        |-> 0,
                   zip_prefix  |-> ldf.zip_prefix[i],
                   matched_zip |-> ldf.matched_zip[i],
                   zip_code    |-> NaV] >>
          ELSE JoinRow(i, ldf, ddf, 1)) \o LeftJoinFrom(i + 1, ldf, ddf)

\* the merge with how='left'
MergeFramesLeft(ldf, ddf) ==
    [columns |-> ldf.columns \cup ddf.columns \cup {"price_per_sqft"},
     rows    |-> LeftJoinFrom(1, ldf, ddf)]

\* lines 47-56: inner merge on matched_zip = zip_code, then price_per_sqft
MergeFrames(ldf, ddf) ==
    [columns |-> ldf.columns \cup ddf.columns \cup {"price_per_sqft"},
     rows    |-> JoinFrom(1, ldf, ddf)]

(* ------------------------------ state ---------------------------------- *)
Init ==
    /\ demo_file \in {MissingFile} \cup {File(c) : c \in SeqsUpTo(DemoCells, MaxDemoRows)}
    /\ list_file \in {MissingFile} \cup {File(c) : c \in SeqsUpTo(ListCells, MaxListRows)}
    /\ cache = NoCache
    /\ pc = "idle"
    /\ hit = FALSE
    /\ demo_df = NoDemo
    /\ listings_df = NoListings
    /\ row = 0
    /\ merged_df = EmptyTable
    /\ df = EmptyTable
    /\ exc = "none"
    /\ ui = {}
    /\ shown = NoShown
    /\ searches = 0
    /\ uniqueBuilds = 0

\* @st.cache_data: the function takes no argument, so one entry holds its result
CacheNever == FALSE

CacheHit == cache.valid

\* line 60 under the decorator of line 15: the script starts and calls the
\* cached function
CallLoad ==
    /\ pc = "idle"
    /\ exc' = "none"
    /\ shown' = NoShown
    /\ IF CacheHit
       THEN /\ df' = cache.value
            /\ ui' = cache.elements
            /\ hit' = TRUE
            /\ pc' = "render"
       ELSE /\ df' = EmptyTable
            /\ ui' = {}
            /\ hit' = FALSE
            /\ pc' = "check"
    /\ searches' = 0
    /\ uniqueBuilds' = 0
    /\ row' = 0
    /\ UNCHANGED <<demo_file, list_file, cache, demo_df, listings_df, merged_df>>

BothMissing == ~demo_file.exists /\ ~list_file.exists

\* line 23
MissingSource == ~demo_file.exists \/ ~list_file.exists

\* lines 22-25
CheckSources ==
    /\ pc = "check"
    /\ IF MissingSource
       THEN /\ ui' = ui \cup {"error"}
            /\ df' = EmptyTable
            /\ cache' = [valid |-> TRUE, value |-> EmptyTable,
                         elements |-> ui \cup {"error"}]
            /\ pc' = "render"
       ELSE /\ pc' = "read"
            /\ UNCHANGED <<ui, df, cache>>
    /\ UNCHANGED <<demo_file, list_file, hit, demo_df, listings_df, row, merged_df,
                   exc, shown, searches, uniqueBuilds>>

\* lines 28-29; read_csv of a missing file raises FileNotFoundError, which
\* nothing catches: the script stops there
ReadCsv ==
    /\ pc = "read"
    /\ IF ~demo_file.exists \/ ~list_file.exists
       THEN /\ exc' = "FileNotFoundError"
            /\ ui' = ui \cup {"exception"}
            /\ pc' = "idle"
            /\ UNCHANGED <<demo_df, listings_df>>
       ELSE /\ demo_df' = [columns |-> DemoCols,
                           zip_code |-> ReadCsvColumn(demo_file.cells)]
            /\ listings_df' = [columns |-> ListCols,
                               postal_code |-> ReadCsvColumn(list_file.cells),
                               zip_prefix |-> <<>>,
                               matched_zip |-> <<>>]
            /\ pc' = "normalize"
            /\ UNCHANGED <<exc, ui>>
    /\ UNCHANGED <<demo_file, list_file, cache, hit, row, merged_df, df, shown,
                   searches, uniqueBuilds>>

\* lines 31-34
Normalize ==
    /\ pc = "normalize"
    /\ demo_df' = [demo_df EXCEPT !.zip_code = NormalizeZip(demo_df.zip_code)]
    /\ listings_df' = [listings_df EXCEPT
                          !.columns = @ \cup {"zip_prefix"},
                          !.zip_prefix = ExtractPrefix(listings_df.postal_code)]
    /\ row' = 1
    /\ pc' = "apply"
    /\ UNCHANGED <<demo_file, list_file, cache, hit, merged_df, df, exc, ui,
                   shown, searches, uniqueBuilds>>

\* lines 37-44: Series.apply calls find_best_zip on the next row
ApplyRow ==
    /\ pc = "apply"
    /\ row <= Len(listings_df.zip_prefix)
    /\ LET prefix == listings_df.zip_prefix[row]
       IN  /\ listings_df' = [listings_df EXCEPT
                                 !.matched_zip = Append(@,
                                     find_best_zip(prefix, demo_df.zip_code.values))]
           /\ uniqueBuilds' = IF prefix.na THEN uniqueBuilds ELSE uniqueBuilds + 1
           /\ searches' = IF prefix.na THEN searches ELSE searches + 1
    /\ row' = row + 1
    /\ UNCHANGED <<demo_file, list_file, cache, pc, hit, demo_df, merged_df, df,
                   exc, ui, shown>>

\* lines 44-56: the new column is stored, the frames are merged and
\* price_per_sqft is added
Merge ==
    /\ pc = "apply"
    /\ row > Len(listings_df.zip_prefix)
    /\ listings_df' = [listings_df EXCEPT !.columns = @ \cup {"matched_zip"}]
    /\ merged_df' = MergeFrames(listings_df', demo_df)
    /\ pc' = "return"
    /\ UNCHANGED <<demo_file, list_file, cache, hit, demo_df, row, df, exc, ui,
                   shown, searches, uniqueBuilds>>

\* line 57: the result is returned and memoized; the locals are gone
Return ==
    /\ pc = "return"
    /\ df' = merged_df
    /\ cache' = [valid |-> TRUE, value |-> merged_df, elements |-> ui]
    /\ demo_df' = NoDemo
    /\ listings_df' = NoListings
    /\ merged_df' = EmptyTable
    /\ row' = 0
    /\ pc' = "render"
    /\ UNCHANGED <<demo_file, list_file, hit, exc, ui, shown, searches, uniqueBuilds>>

ZipOptions == {df.rows[i].zip_code : i \in 1..Len(df.rows)}

Filtered(zip_selection) ==
    LET Keep(r) == r.zip_code \in zip_selection
    IN  SelectSeq(df.rows, Keep)

\* lines 62-126: the warning, or the filters, the metrics and the three views
Render ==
    /\ pc = "render"
    /\ IF df.rows = <<>>
       THEN /\ ui' = ui \cup {"warning"}
            /\ shown' = NoShown
       ELSE \E zip_selection \in SUBSET ZipOptions :
               LET filtered_df == [columns |-> df.columns,
                                   rows |-> Filtered(zip_selection)]
               IN  /\ ui' = ui \cup {"filters", "metrics", "scatter", "bar", "detail"}
                   /\ shown' = [scatter |-> filtered_df,
                                bar     |-> filtered_df,
                                detail  |-> [filtered_df EXCEPT !.columns =
                                               @ \ {"zip_prefix", "matched_zip"}]]
    /\ pc' = "idle"
    /\ UNCHANGED <<demo_file, list_file, cache, hit, demo_df, listings_df, row,
                   merged_df, df, exc, searches, uniqueBuilds>>

(* ---------------------------- environment ------------------------------ *)
RemoveDemoFile ==
    /\ pc = "idle"
    /\ demo_file.exists
    /\ demo_file' = MissingFile
    /\ UNCHANGED <<list_file, cache, pc, hit, demo_df, listings_df, row,
                   merged_df, df, exc, ui, shown, searches, uniqueBuilds>>

RemoveListFile ==
    /\ pc = "idle"
    /\ list_file.exists
    /\ list_file' = MissingFile
    /\ UNCHANGED <<demo_file, cache, pc, hit, demo_df, listings_df, row,
                   merged_df, df, exc, ui, shown, searches, uniqueBuilds>>

WriteDemoFile ==
    /\ pc = "idle"
    /\ \E c \in NewDemoFiles : demo_file' = File(c)
    /\ demo_file' # demo_file
    /\ UNCHANGED <<list_file, cache, pc, hit, demo_df, listings_df, row,
                   merged_df, df, exc, ui, shown, searches, uniqueBuilds>>

WriteListFile ==
    /\ pc = "idle"
    /\ \E c \in NewListFiles : list_file' = File(c)
    /\ list_file' # list_file
    /\ UNCHANGED <<demo_file, cache, pc, hit, demo_df, listings_df, row,
                   merged_df, df, exc, ui, shown, searches, uniqueBuilds>>

\* st.cache_data.clear()
ClearCache ==
    /\ pc = "idle"
    /\ cache.valid
    /\ cache' = NoCache
    /\ UNCHANGED <<demo_file, list_file, pc, hit, demo_df, listings_df, row,
                   merged_df, df, exc, ui, shown, searches, uniqueBuilds>>

\* the server process is restarted: nothing but the files survives
RestartProcess ==
    /\ pc = "idle"
    /\ cache.valid
    /\ cache' = NoCache
    /\ hit' = FALSE
    /\ df' = EmptyTable
    /\ exc' = "none"
    /\ ui' = {}
    /\ shown' = NoShown
    /\ searches' = 0
    /\ uniqueBuilds' = 0
    /\ row' = 0
    /\ UNCHANGED <<demo_file, list_file, pc, demo_df, listings_df, merged_df>>

Next ==
    \/ CallLoad
    \/ CheckSources
    \/ ReadCsv
    \/ Normalize
    \/ ApplyRow
    \/ Merge
    \/ Return
    \/ Render
    \/ RemoveDemoFile
    \/ RemoveListFile
    \/ WriteDemoFile
    \/ WriteListFile
    \/ ClearCache
    \/ RestartProcess

Spec == Init /\ [][Next]_vars

(* ======================================================================= *)
(*                               Claims                                    *)
(* ======================================================================= *)
Rows(table) == {table.rows[i] : i \in 1..Len(table.rows)}
ZipCodes == demo_df.zip_code.values
Normalized == pc \in {"apply", "return"}
Views == {"filters", "metrics", "scatter", "bar", "detail"}

\* C1: when load_and_merge_data's body runs and either source file is
\* missing, it returns the empty table and raises nothing; the script then
\* shows the warning and renders no filter and no chart.
C1_MissingSourceYieldsEmptyTable ==
    [][ /\ (pc = "check" /\ (~demo_file.exists \/ ~list_file.exists))
            => (pc' = "render" /\ df' = EmptyTable /\ exc' = "none")
        /\ (pc = "render" /\ df = EmptyTable)
            => /\ "warning" \in ui'
               /\ ui' \cap Views = {}
               /\ shown' = NoShown
               /\ exc' = "none" ]_vars

C1_Witness ==
    /\ pc = "idle"
    /\ ~hit
    /\ ~demo_file.exists
    /\ list_file.exists
    /\ df = EmptyTable
    /\ ui = {"error", "warning"}
    /\ exc = "none"

\* C2: a listing's matched_zip is set only to a demographic code that its
\* prefix scores at least 80 against; a prefix that scores below 80 against
\* every code, or that has no code to compare with, gets no matched_zip, and
\* nothing is raised.
C2_MatchedOnlyAtThreshold ==
    Normalized =>
        /\ exc = "none"
        /\ \A i \in 1..Len(listings_df.matched_zip) :
              LET p == listings_df.zip_prefix[i]
                  m == listings_df.matched_zip[i]
              IN  /\ ~m.na =>
                        /\ ~p.na
                        /\ \E j \in 1..Len(ZipCodes) : ZipCodes[j] = m
                        /\ ScoreGe(PartialRatio(p.s, m.s), Threshold)
                  /\ (~p.na /\ \A j \in 1..Len(ZipCodes) :
                          ~ScoreGe(PartialRatio(p.s, ZipCodes[j].s), Threshold))
                        => m.na

\* one listing accepted with a score of exactly 80, another one rejected
\* although there are candidates, a third case with no candidate at all
C2_Witness ==
    /\ pc = "return"
    /\ \E i \in 1..Len(listings_df.matched_zip) :
          /\ ~listings_df.matched_zip[i].na
          /\ ~ScoreGe(PartialRatio(listings_df.zip_prefix[i].s,
                                   listings_df.matched_zip[i].s), Threshold + 1)
    /\ \E i \in 1..Len(listings_df.matched_zip) :
          /\ ~listings_df.zip_prefix[i].na
          /\ listings_df.matched_zip[i].na
          /\ Len(ZipCodes) > 0

\* C3: no row of the joined table has an absent matched_zip, every row's
\* zip_code equals its matched_zip, and a listing without a digit prefix or
\* without a match has no row in it.
C3_NoAbsentMatchInOutput ==
    /\ \A r \in Rows(merged_df) \cup Rows(df) :
          ~r.matched_zip.na /\ r.zip_code = r.matched_zip
    /\ pc = "return" =>
          \A i \in 1..Len(listings_df.matched_zip) :
              (listings_df.zip_prefix[i].na \/ listings_df.matched_zip[i].na)
                 => ~(\E r \in Rows(merged_df) : r.listing = i)

\* a run whose demographics hold a missing zip_code, with one listing joined
\* and one listing dropped
C3_Witness ==
    /\ pc = "return"
    /\ \E j \in 1..Len(demo_file.cells) : demo_file.cells[j] \in NaValues
    /\ Len(listings_df.matched_zip) = 2
    /\ Len(merged_df.rows) = 1
    /\ \E i \in 1..2 : listings_df.zip_prefix[i].na

RowsOf(i) == {k \in 1..Len(merged_df.rows) : merged_df.rows[k].listing = i}
Holders(i) == {j \in 1..Len(ZipCodes) : KeyEq(listings_df.matched_zip[i], ZipCodes[j])}

\* C4 as stated: for any demographics table, duplicates included, the joined
\* table has as many rows as there are matched listings, and no listing is in
\* more than one row.
C4_OneRowPerMatchedListing ==
    pc = "return" =>
        /\ Len(merged_df.rows) =
              Cardinality({i \in 1..Len(listings_df.matched_zip) :
                              ~listings_df.matched_zip[i].na})
        /\ \A i \in 1..Len(listings_df.matched_zip) : Cardinality(RowsOf(i)) <= 1

\* C4 amended: a listing has one row in the joined table for each demographic
\* row that holds its matched_zip, and none when its matched_zip is absent;
\* so it has exactly one row when the normalised zip_codes are distinct.
C4_OneRowPerMatchingDemographic ==
    pc = "return" =>
        \A i \in 1..Len(listings_df.matched_zip) :
            /\ listings_df.matched_zip[i].na => RowsOf(i) = {}
            /\ ~listings_df.matched_zip[i].na =>
                  /\ Cardinality(RowsOf(i)) = Cardinality(Holders(i))
                  /\ Cardinality(RowsOf(i)) >= 1
            /\ (\A j, k \in 1..Len(ZipCodes) : ZipCodes[j] = ZipCodes[k] => j = k)
                  => Cardinality(RowsOf(i)) <= 1

\* a matched listing joined to two demographic rows with the same zip_code,
\* beside a listing that is dropped
C4_Witness ==
    /\ pc = "return"
    /\ Len(ZipCodes) = 2
    /\ ZipCodes[1] = ZipCodes[2]
    /\ \E i \in 1..Len(listings_df.matched_zip) : Cardinality(RowsOf(i)) = 2
    /\ \E i \in 1..Len(listings_df.matched_zip) : listings_df.matched_zip[i].na

\* C5: after normalisation every demographic zip_code is exactly five
\* characters long and holds decimal digits only.
C5_ZipCodeFiveDigits ==
    Normalized =>
        \A j \in 1..Len(ZipCodes) :
            /\ ~ZipCodes[j].na
            /\ Len(ZipCodes[j].s) = ZipWidth
            /\ \A k \in 1..Len(ZipCodes[j].s) : ZipCodes[j].s[k] \in Digits

\* C6: a listing's zip_prefix is the first maximal run of digits of the
\* postal_code text in the file; when that text is a missing value or has no
\* digit, zip_prefix is absent and so is matched_zip.
C6_PrefixIsFirstDigitRun ==
    Normalized =>
        /\ \A i \in 1..Len(listings_df.zip_prefix) :
              LET raw == list_file.cells[i]
              IN  IF \E k \in 1..Len(raw) : raw[k] \in Digits
                  THEN listings_df.zip_prefix[i] = Extract(StrV(raw))
                  ELSE listings_df.zip_prefix[i].na
        /\ \A i \in 1..Len(listings_df.matched_zip) :
              listings_df.zip_prefix[i].na => listings_df.matched_zip[i].na

\* C7: neither zip_prefix nor matched_zip is a column of a table that reaches
\* the presentation layer: the returned table, the scatter chart's, the bar
\* chart's and the detail view's.
C7_NoWorkingColumnShown ==
    \A table \in {df, shown.scatter, shown.bar, shown.detail} :
        table.columns \cap {"zip_prefix", "matched_zip"} = {}

\* C8: once a result is memoized, a call returns it without running the body
\* again, and only a cache clear or a restart of the process drops it: a
\* change of the files does not.
C8_MemoizedUntilCleared ==
    [][ /\ (pc = "idle" /\ cache.valid /\ pc' # "idle")
            => /\ pc' = "render"
               /\ df' = cache.value
               /\ UNCHANGED <<cache, demo_df, listings_df, merged_df>>
        /\ (cache.valid /\ cache' # cache) => (ClearCache \/ RestartProcess)
        /\ cache.valid => pc \in {"idle", "render"} ]_vars

\* a memoized non-empty table is served although a source file has been removed
C8_Witness ==
    /\ pc = "render"
    /\ hit
    /\ df.rows # <<>>
    /\ ~demo_file.exists

Score(i, k) == PartialRatio(listings_df.zip_prefix[i].s, Unique(ZipCodes)[k].s)

\* C9: for a fixed demographic table a prefix's matched_zip is determined: it
\* is the first code, in the order of first appearance, among those with the
\* maximum score (absent when that score is below 80), and computing it again
\* gives the same value.
C9_FirstBestCandidate ==
    Normalized =>
        \A i \in 1..Len(listings_df.matched_zip) :
            LET m == listings_df.matched_zip[i]
                choices == Unique(ZipCodes)
            IN  /\ m = find_best_zip(listings_df.zip_prefix[i], ZipCodes)
                /\ ~m.na =>
                      \E k \in 1..Len(choices) :
                          /\ choices[k] = m
                          /\ \A j \in 1..Len(choices) : ~ScoreGt(Score(i, j), Score(i, k))
                          /\ \A j \in 1..(k - 1) : ScoreGt(Score(i, k), Score(i, j))

\* two distinct codes tie for the best score, below 100, and the first is taken
C9_Witness ==
    /\ pc = "return"
    /\ Len(Unique(ZipCodes)) = 2
    /\ \E i \in 1..Len(listings_df.matched_zip) :
          /\ listings_df.matched_zip[i] = Unique(ZipCodes)[1]
          /\ ScoreEq(Score(i, 1), Score(i, 2))
          /\ ~ScoreEq(Score(i, 1), FullScore)

\* C10: one run performs one similarity search per distinct non-absent
\* zip_prefix, and builds the set of distinct codes once.
C10_OneSearchPerDistinctPrefix ==
    pc = "return" =>
        /\ searches = Cardinality({listings_df.zip_prefix[i] :
                          i \in {i \in 1..Len(listings_df.zip_prefix) :
                                    ~listings_df.zip_prefix[i].na}})
        /\ uniqueBuilds <= 1

====
